---- MODULE Spec2Model ----
(***************************************************************************)
(* The weather MCP server: the HTTP router (MCPService.handleRequest and   *)
(* its handlers) on top of WeatherService.                                 *)
(*                                                                         *)
(* Values.  A JavaScript string is a sequence of tokens: the characters of *)
(* caller-supplied city names are single-character tokens (so that split,  *)
(* trim and the case conversions are computed), the fixed pieces of the    *)
(* templates are one token each.  An optional value (a field that may be   *)
(* undefined) is the empty set when absent and a singleton when present.   *)
(***************************************************************************)
EXTENDS Integers, Sequences, FiniteSets, TLC

\* ------------------------------------------------------------------ bounds
MaxCityLen == 2      \* longest city argument, in characters
MaxCities  == 3      \* most comma-separated entries of a cities argument

\* ------------------------------------------------- optional values (x?: T)
None == {}
Some(v) == {v}
IsSome(o) == o # {}
Get(o) == CHOOSE v \in o : TRUE

\* x || d on an optional string: undefined and '' are falsy
OrDefault(o, d) == IF o = None \/ Get(o) = <<>> THEN d ELSE Get(o)

\* ----------------------------------------------------------------- strings
S(tok) == <<tok>>

RECURSIVE Flatten(_)
Flatten(parts) ==
  IF parts = <<>> THEN <<>> ELSE Head(parts) \o Flatten(Tail(parts))

\* the letters that occur in the modelled city names
LowerLetters == <<"a", "b", "d", "i", "l", "n", "o", "p", "r", "s">>
UpperLetters == <<"A", "B", "D", "I", "L", "N", "O", "P", "R", "S">>

IndexIn(letters, ch) ==
  IF \E k \in DOMAIN letters : letters[k] = ch
  THEN CHOOSE k \in DOMAIN letters : letters[k] = ch
  ELSE 0

toUpperCase(s) ==
  [i \in 1..Len(s) |->
     IF IndexIn(LowerLetters, s[i]) # 0
     THEN UpperLetters[IndexIn(LowerLetters, s[i])] ELSE s[i]]

toLowerCase(s) ==
  [i \in 1..Len(s) |->
     IF IndexIn(UpperLetters, s[i]) # 0
     THEN LowerLetters[IndexIn(UpperLetters, s[i])] ELSE s[i]]

charAt0(s) == IF s = <<>> THEN <<>> ELSE <<s[1]>>
slice1(s) == IF s = <<>> THEN <<>> ELSE Tail(s)

RECURSIVE trimStart(_)
trimStart(s) ==
  IF s # <<>> /\ Head(s) = " " THEN trimStart(Tail(s)) ELSE s

RECURSIVE trimEnd(_)
trimEnd(s) ==
  IF s # <<>> /\ s[Len(s)] = " " THEN trimEnd(SubSeq(s, 1, Len(s) - 1)) ELSE s

trim(s) == trimEnd(trimStart(s))

\* s.split(','): the pieces between the commas, empty pieces included
RECURSIVE splitFrom(_, _)
splitFrom(s, cur) ==
  IF s = <<>> THEN <<cur>>
  ELSE IF Head(s) = "," THEN <<cur>> \o splitFrom(Tail(s), <<>>)
  ELSE splitFrom(Tail(s), Append(cur, Head(s)))

split(s) == splitFrom(s, <<>>)

\* parts.join(sep)
RECURSIVE join(_, _)
join(parts, sep) ==
  IF parts = <<>> THEN <<>>
  ELSE IF Len(parts) = 1 THEN parts[1]
  ELSE parts[1] \o sep \o join(Tail(parts), sep)

\* String(n) of a number given in tenths (52 is 5.2, 220 is 22)
numberToString(tenths) ==
  LET a == IF tenths < 0 THEN -tenths ELSE tenths
      sign == IF tenths < 0 THEN "-" ELSE ""
  IN  IF a % 10 = 0 THEN sign \o ToString(a \div 10)
      ELSE sign \o ToString(a \div 10) \o "." \o ToString(a % 10)

\* Math.round of a number given in tenths (halves round up)
MathRound(tenths) == (tenths + 5) \div 10

\* Date.prototype.toISOString of a clock reading (seconds 0..9 of the epoch)
toISOString(t) == "1970-01-01T00:00:0" \o ToString(t) \o ".000Z"

\* ---------------------------------------------------------- WeatherService
\* process.env.OPENWEATHER_API_KEY, absent or set
EnvKeys == {None, Some("secret")}

\* WeatherService constructor: the configured key, or 'demo-key'
WeatherServiceApiKey(envKey) ==
  IF envKey = None \/ Get(envKey) = "" THEN "demo-key" ELSE Get(envKey)

\* the provider's answer to a successful query for q (numbers in tenths where
\* the provider sends decimals; visibility in metres, a multiple of 100)
OpenWeatherMapResponse(q) ==
  [name |-> q, country |-> S("GB"), temp |-> 185, feels_like |-> -25,
   humidity |-> 80, pressure |-> 1009, description |-> S("light rain"),
   speed |-> 36, deg |-> 270, visibility |-> 8500]

\* what one axios.get can end in: a 2xx answer, a 404, a 401, anything else
\* (another status, a network error, the 10 s timeout)
AxiosOutcomes == {"ok", "404", "401", "other"}

transformWeatherData(data, units, now) ==
  [city |-> data.name, country |-> data.country,
   temperature |-> MathRound(data.temp), feelsLike |-> MathRound(data.feels_like),
   humidity |-> data.humidity, pressure |-> data.pressure,
   description |-> data.description,
   windSpeed |-> data.speed, windDirection |-> data.deg,
   visibility |-> data.visibility, units |-> units, timestamp |-> now]

\* faulty variant: the rest of the city name keeps its case
getMockWeatherDataKeepCase(city, units, now) ==
  LET isMetric == units = S("metric")
  IN  [city |-> toUpperCase(charAt0(city)) \o slice1(city),
       country |-> S("XX"),
       temperature |-> IF isMetric THEN 22 ELSE 72,
       feelsLike |-> IF isMetric THEN 24 ELSE 75,
       humidity |-> 65, pressure |-> 1013,
       description |-> S("partly cloudy"),
       windSpeed |-> IF isMetric THEN 52 ELSE 116,
       windDirection |-> 180, visibility |-> 10000,
       units |-> units, timestamp |-> now]

getMockWeatherData(city, units, now) ==
  LET isMetric == units = S("metric")
  IN  [city |-> toUpperCase(charAt0(city)) \o toLowerCase(slice1(city)),
       country |-> S("XX"),
       temperature |-> IF isMetric THEN 22 ELSE 72,
       feelsLike |-> IF isMetric THEN 24 ELSE 75,
       humidity |-> 65, pressure |-> 1013,
       description |-> S("partly cloudy"),
       windSpeed |-> IF isMetric THEN 52 ELSE 116,
       windDirection |-> 180, visibility |-> 10000,
       units |-> units, timestamp |-> now]

formatWeatherForDisplay(weather) ==
  LET tempUnit == IF weather.units = S("metric") THEN "°C" ELSE "°F"
      speedUnit == IF weather.units = S("metric") THEN "m/s" ELSE "mph"
  IN  Flatten(<<
        S("Weather in "), weather.city, S(", "), weather.country,
        S(":"), S("\nTemperature: "),
        S(numberToString(10 * weather.temperature)), S(tempUnit),
        S(" (feels like "),
        S(numberToString(10 * weather.feelsLike)), S(tempUnit),
        S(")\nCondition: "), weather.description,
        S("\nHumidity: "), S(numberToString(10 * weather.humidity)),
        S("%\nPressure: "), S(numberToString(10 * weather.pressure)),
        S(" hPa\nWind: "), S(numberToString(weather.windSpeed)),
        S(" "), S(speedUnit), S(" at "),
        S(numberToString(10 * weather.windDirection)),
        S("°\nVisibility: "), S(numberToString(weather.visibility \div 100)),
        S(" km\nLast updated: "), S(toISOString(weather.timestamp)) >>)

\* the promise of one getWeatherByCity call; outbound tells whether the call
\* sent a query to the provider
Promise(state, city, units, outbound, value, reason) ==
  [state |-> state, city |-> city, units |-> units, outbound |-> outbound,
   value |-> value, reason |-> reason]

\* faulty variant: the blank-city check without trim()
getWeatherByCityNoTrim(apiKey, city, units, now) ==
  IF city = None \/ Get(city) = <<>>
  THEN Promise("rejected", city, units, FALSE, None, S("City name is required"))
  ELSE IF apiKey = "demo-key"
  THEN Promise("fulfilled", city, units, FALSE,
               Some(getMockWeatherData(Get(city), units, now)), <<>>)
  ELSE Promise("pending", city, units, TRUE, None, <<>>)

\* getWeatherByCity up to its await: the blank-city check and the mock path
\* settle the promise at once, a configured key sends the query
getWeatherByCity(apiKey, city, units, now) ==
  IF city = None \/ Get(city) = <<>> \/ Len(trim(Get(city))) = 0
  THEN Promise("rejected", city, units, FALSE, None, S("City name is required"))
  ELSE IF apiKey = "demo-key"
  THEN Promise("fulfilled", city, units, FALSE,
               Some(getMockWeatherData(Get(city), units, now)), <<>>)
  ELSE Promise("pending", city, units, TRUE, None, <<>>)

\* faulty variant: a 401 is reported as the generic failure
getWeatherByCityResumeNo401(promise, outcome, now) ==
  CASE outcome = "ok" ->
         [promise EXCEPT !.state = "fulfilled",
            !.value = Some(transformWeatherData(
                        OpenWeatherMapResponse(Get(promise.city)),
                        promise.units, now))]
    [] outcome = "404" ->
         [promise EXCEPT !.state = "rejected",
            !.reason = Flatten(<<S("City \""), Get(promise.city),
                                 S("\" not found")>>)]
    [] OTHER ->
         [promise EXCEPT !.state = "rejected",
            !.reason = S("Failed to fetch weather data")]

\* getWeatherByCity from its await on: the query came back with outcome
getWeatherByCityResume(promise, outcome, now) ==
  CASE outcome = "ok" ->
         [promise EXCEPT !.state = "fulfilled",
            !.value = Some(transformWeatherData(
                        OpenWeatherMapResponse(Get(promise.city)),
                        promise.units, now))]
    [] outcome = "404" ->
         [promise EXCEPT !.state = "rejected",
            !.reason = Flatten(<<S("City \""), Get(promise.city),
                                 S("\" not found")>>)]
    [] outcome = "401" ->
         [promise EXCEPT !.state = "rejected", !.reason = S("Invalid API key")]
    [] OTHER ->
         [promise EXCEPT !.state = "rejected",
            !.reason = S("Failed to fetch weather data")]

\* ------------------------------------------------------------- MCP envelopes
London == <<"L", "o", "n", "d", "o", "n">>
Paris == <<"P", "a", "r", "i", "s">>
LondonParis == London \o S(",") \o Paris

\* MCPRequest: id and params are optional; params is {name, arguments}
MCPRequest(id, method, params) ==
  [jsonrpc |-> "2.0", id |-> id, method |-> method, params |-> params]

\* MCPResponse: id, result and error are optional
MCPResponse(id, result, error) ==
  [jsonrpc |-> "2.0", id |-> id, result |-> result, error |-> error]

\* faulty variant: the error envelope also carries a result member
createErrorResponseWithResult(id, code, message) ==
  MCPResponse(id, Some([isError |-> TRUE]),
              Some([code |-> code, message |-> message]))

createErrorResponse(id, code, message) ==
  MCPResponse(id, None, Some([code |-> code, message |-> message]))

\* how a handler leaves its synchronous part: it returns an envelope, it
\* throws (an async handler: its promise rejects), or it awaits promises
Return(response) ==
  [kind |-> "return", response |-> Some(response), reason |-> <<>>,
   promises |-> <<>>]
Throw(reason) ==
  [kind |-> "throw", response |-> None, reason |-> reason, promises |-> <<>>]
Await(promises) ==
  [kind |-> "await", response |-> None, reason |-> <<>>, promises |-> promises]

\* the TypeError of reading a property of undefined
TypeErrorReading(prop) ==
  Flatten(<<S("Cannot read properties of undefined (reading '"), S(prop),
            S("')")>>)
\* the TypeError of destructuring request.params when it is undefined
TypeErrorDestructure ==
  S("Cannot destructure property 'name' of 'request.params' as it is undefined.")

\* ---------------------------------------------------------------- MCPService
getServerCapabilities ==
  [tools |-> [listChanged |-> TRUE], prompts |-> [listChanged |-> TRUE]]

getAvailableTools ==
  << [name |-> "get-weather",
      description |-> "Get current weather information for a city",
      properties |-> <<"city", "units">>,
      unitsEnum |-> <<"metric", "imperial">>,
      unitsDefault |-> "metric",
      required |-> <<"city">>] >>

getAvailablePrompts ==
  << [name |-> "weather-report",
      arguments |-> << [name |-> "city", required |-> TRUE],
                       [name |-> "units", required |-> FALSE] >>],
     [name |-> "travel-weather-advice",
      arguments |-> << [name |-> "cities", required |-> TRUE],
                       [name |-> "travel_date", required |-> FALSE] >>],
     [name |-> "weather-comparison",
      arguments |-> << [name |-> "city1", required |-> TRUE],
                       [name |-> "city2", required |-> TRUE] >>] >>

handleInitialize(request) ==
  MCPResponse(request.id,
              Some([protocolVersion |-> "2024-11-05",
                    capabilities |-> getServerCapabilities,
                    serverInfo |-> [name |-> "weather-mcp-server",
                                    version |-> "1.0.0"]]),
              None)

handleToolsList(request) ==
  MCPResponse(request.id, Some([tools |-> getAvailableTools]), None)

\* faulty variant: a request that carries params gets the first page only
handlePromptsListPaged(request) ==
  MCPResponse(request.id,
              Some([prompts |-> IF request.params = None
                                THEN getAvailablePrompts
                                ELSE SubSeq(getAvailablePrompts, 1, 1)]),
              None)

handlePromptsList(request) ==
  MCPResponse(request.id, Some([prompts |-> getAvailablePrompts]), None)

\* faulty variant: the tool name is not looked at
handleToolsCallAnyName(apiKey, request, now) ==
  IF request.params = None THEN Throw(TypeErrorDestructure)
  ELSE
    LET args == Get(request.params).arguments
    IN  IF args = None
        THEN Return(createErrorResponse(request.id, -32603,
                      S("Weather service error: ") \o TypeErrorReading("city")))
        ELSE Await(<< getWeatherByCity(apiKey, Get(args).city,
                        OrDefault(Get(args).units, S("metric")), now) >>)

\* handleToolsCall up to its await
handleToolsCall(apiKey, request, now) ==
  IF request.params = None THEN Throw(TypeErrorDestructure)
  ELSE
    LET name == Get(request.params).name
        args == Get(request.params).arguments
    IN  IF name = Some("get-weather")
        THEN IF args = None
             THEN \* args.city throws inside the try block
                  Return(createErrorResponse(request.id, -32603,
                           S("Weather service error: ") \o TypeErrorReading("city")))
             ELSE Await(<< getWeatherByCity(apiKey, Get(args).city,
                             OrDefault(Get(args).units, S("metric")), now) >>)
        ELSE Return(createErrorResponse(request.id, -32602, S("Unknown tool")))

\* handleToolsCall from its await on
handleToolsCallResume(request, promises) ==
  IF promises[1].state = "fulfilled"
  THEN Return(MCPResponse(request.id,
         Some([content |-> << [type |-> "text",
                               text |-> formatWeatherForDisplay(Get(promises[1].value))] >>]),
         None))
  ELSE Return(createErrorResponse(request.id, -32603,
         S("Weather service error: ") \o promises[1].reason))

PromptResult(description, text) ==
  [description |-> description,
   messages |-> << [role |-> "user",
                    content |-> [type |-> "text", text |-> text]] >>]

\* faulty variant: the fetch is metric whatever units the caller names
generateWeatherReportPromptMetricOnly(apiKey, args, now) ==
  IF args = None THEN Throw(TypeErrorReading("city"))
  ELSE
    LET city == OrDefault(Get(args).city, London)
    IN  Await(<< getWeatherByCity(apiKey, Some(city), S("metric"), now) >>)

\* generateWeatherReportPrompt up to its await (args may be undefined)
generateWeatherReportPrompt(apiKey, args, now) ==
  IF args = None THEN Throw(TypeErrorReading("city"))
  ELSE
    LET city == OrDefault(Get(args).city, London)
        units == OrDefault(Get(args).units, S("metric"))
    IN  Await(<< getWeatherByCity(apiKey, Some(city), units, now) >>)

\* generateWeatherReportPrompt from its await on
generateWeatherReportPromptResume(args, promises) ==
  LET city == OrDefault(Get(args).city, London)
      weatherText == formatWeatherForDisplay(Get(promises[1].value))
  IN  Return(MCPResponse(Some(1),
        Some(PromptResult(
          S("Comprehensive weather report for ") \o city,
          Flatten(<< S("Please analyze this weather data and provide a comprehensive weather report with insights and recommendations:\n\n"),
                     weatherText,
                     S("\n\nInclude:\n- Current conditions summary\n- Comfort level analysis\n- Activity recommendations\n- What to wear suggestions\n- Any weather alerts or notable conditions") >>))),
        None))

\* faulty variant: the entries are not trimmed
TravelCitiesNoTrim(args) ==
  split(OrDefault(Get(args).cities, LondonParis))

\* (args.cities || 'London,Paris').split(',').map(c => c.trim())
TravelCities(args) ==
  LET parts == split(OrDefault(Get(args).cities, LondonParis))
  IN  [i \in 1..Len(parts) |-> trim(parts[i])]

\* generateTravelWeatherAdvicePrompt up to its await: cities.map calls
\* getWeatherByCity for every city before Promise.all is awaited
generateTravelWeatherAdvicePrompt(apiKey, args, now) ==
  IF args = None THEN Throw(TypeErrorReading("cities"))
  ELSE
    LET cities == TravelCities(args)
    IN  Await([i \in 1..Len(cities) |->
                 getWeatherByCity(apiKey, Some(cities[i]), S("metric"), now)])

\* faulty variant: the blocks are joined last fetch first
generateTravelWeatherAdvicePromptResumeReversed(args, promises) ==
  LET cities == TravelCities(args)
      travelDate == OrDefault(Get(args).travel_date, S("today"))
      weatherTexts ==
        join([i \in 1..Len(promises) |->
                formatWeatherForDisplay(
                  Get(promises[Len(promises) + 1 - i].value))], S("\n\n"))
  IN  Return(MCPResponse(Some(1),
        Some(PromptResult(
          S("Travel weather advice for ") \o join(cities, S(", ")),
          Flatten(<< S("I'm planning to travel to these cities "), travelDate,
                     S(". Please analyze the weather conditions and provide travel advice:\n\n"),
                     weatherTexts,
                     S("\n\nPlease provide:\n- Best city for outdoor activities\n- Packing recommendations\n- Transportation considerations\n- Best times to visit each location\n- Any weather-related travel warnings") >>))),
        None))

\* generateTravelWeatherAdvicePrompt from its await on
generateTravelWeatherAdvicePromptResume(args, promises) ==
  LET cities == TravelCities(args)
      travelDate == OrDefault(Get(args).travel_date, S("today"))
      weatherTexts ==
        join([i \in 1..Len(promises) |->
                formatWeatherForDisplay(Get(promises[i].value))], S("\n\n"))
  IN  Return(MCPResponse(Some(1),
        Some(PromptResult(
          S("Travel weather advice for ") \o join(cities, S(", ")),
          Flatten(<< S("I'm planning to travel to these cities "), travelDate,
                     S(". Please analyze the weather conditions and provide travel advice:\n\n"),
                     weatherTexts,
                     S("\n\nPlease provide:\n- Best city for outdoor activities\n- Packing recommendations\n- Transportation considerations\n- Best times to visit each location\n- Any weather-related travel warnings") >>))),
        None))

\* faulty variant: the fetches take the units argument of the caller
generateWeatherComparisonPromptCallerUnits(apiKey, args, now) ==
  IF args = None THEN Throw(TypeErrorReading("city1"))
  ELSE
    LET city1 == OrDefault(Get(args).city1, London)
        city2 == OrDefault(Get(args).city2, Paris)
        units == OrDefault(Get(args).units, S("metric"))
    IN  Await(<< getWeatherByCity(apiKey, Some(city1), units, now),
                 getWeatherByCity(apiKey, Some(city2), units, now) >>)

\* generateWeatherComparisonPrompt up to its await
generateWeatherComparisonPrompt(apiKey, args, now) ==
  IF args = None THEN Throw(TypeErrorReading("city1"))
  ELSE
    LET city1 == OrDefault(Get(args).city1, London)
        city2 == OrDefault(Get(args).city2, Paris)
    IN  Await(<< getWeatherByCity(apiKey, Some(city1), S("metric"), now),
                 getWeatherByCity(apiKey, Some(city2), S("metric"), now) >>)

\* generateWeatherComparisonPrompt from its await on
generateWeatherComparisonPromptResume(args, promises) ==
  LET city1 == OrDefault(Get(args).city1, London)
      city2 == OrDefault(Get(args).city2, Paris)
      weather1Text == formatWeatherForDisplay(Get(promises[1].value))
      weather2Text == formatWeatherForDisplay(Get(promises[2].value))
  IN  Return(MCPResponse(Some(1),
        Some(PromptResult(
          Flatten(<< S("Weather comparison between "), city1, S(" and "), city2 >>),
          Flatten(<< S("Please compare the weather conditions between these two cities and help me decide which has better conditions:\n\n"),
                     S("**"), city1, S(":**\n"), weather1Text,
                     S("\n\n"), S("**"), city2, S(":**\n"), weather2Text,
                     S("\n\nProvide a detailed comparison including:\n- Temperature and comfort differences\n- Precipitation and visibility\n- Wind conditions\n- Overall weather quality\n- Recommendations for activities in each city") >>))),
        None))

\* faulty variant: the unknown-prompt envelope carries the literal id 1 as well
handlePromptsGetLiteralId(apiKey, request, now) ==
  IF request.params = None THEN Throw(TypeErrorDestructure)
  ELSE
    LET name == Get(request.params).name
        args == Get(request.params).arguments
    IN  CASE name = Some("weather-report") ->
               generateWeatherReportPrompt(apiKey, args, now)
          [] name = Some("travel-weather-advice") ->
               generateTravelWeatherAdvicePrompt(apiKey, args, now)
          [] name = Some("weather-comparison") ->
               generateWeatherComparisonPrompt(apiKey, args, now)
          [] OTHER ->
               Return(createErrorResponse(Some(1), -32602, S("Unknown prompt")))

\* handlePromptsGet up to the first await of the generator it calls
handlePromptsGet(apiKey, request, now) ==
  IF request.params = None THEN Throw(TypeErrorDestructure)
  ELSE
    LET name == Get(request.params).name
        args == Get(request.params).arguments
    IN  CASE name = Some("weather-report") ->
               generateWeatherReportPrompt(apiKey, args, now)
          [] name = Some("travel-weather-advice") ->
               generateTravelWeatherAdvicePrompt(apiKey, args, now)
          [] name = Some("weather-comparison") ->
               generateWeatherComparisonPrompt(apiKey, args, now)
          [] OTHER ->
               Return(createErrorResponse(request.id, -32602, S("Unknown prompt")))

\* the generator of a prompts/get request from its await on
handlePromptsGetResume(request, promises) ==
  LET name == Get(request.params).name
      args == Get(request.params).arguments
  IN  CASE name = Some("weather-report") ->
             generateWeatherReportPromptResume(args, promises)
        [] name = Some("travel-weather-advice") ->
             generateTravelWeatherAdvicePromptResume(args, promises)
        [] OTHER ->
             generateWeatherComparisonPromptResume(args, promises)

\* the catch block of handleRequest: it sees what the try block throws
\* synchronously
CatchInternal(request, completion) ==
  IF completion.kind = "throw"
  THEN Return(createErrorResponse(request.id, -32603, S("Internal error")))
  ELSE completion

\* faulty variant: the method name is matched without regard to case
handleRequestAnyCase(apiKey, request, now) ==
  LET method == IF request.method = "Tools/List" THEN "tools/list"
                ELSE request.method
  IN  CASE method = "initialize" ->
             CatchInternal(request, Return(handleInitialize(request)))
        [] method = "tools/list" ->
             CatchInternal(request, Return(handleToolsList(request)))
        [] method = "tools/call" ->
             handleToolsCall(apiKey, request, now)
        [] method = "prompts/list" ->
             CatchInternal(request, Return(handlePromptsList(request)))
        [] method = "prompts/get" ->
             handlePromptsGet(apiKey, request, now)
        [] OTHER ->
             CatchInternal(request,
               Return(createErrorResponse(request.id, -32601, S("Method not found"))))

\* handleRequest up to the first await below it.  The promises of the two
\* async handlers are returned without await, so the catch block does not
\* see their rejections.
handleRequest(apiKey, request, now) ==
  CASE request.method = "initialize" ->
         CatchInternal(request, Return(handleInitialize(request)))
    [] request.method = "tools/list" ->
         CatchInternal(request, Return(handleToolsList(request)))
    [] request.method = "tools/call" ->
         handleToolsCall(apiKey, request, now)
    [] request.method = "prompts/list" ->
         CatchInternal(request, Return(handlePromptsList(request)))
    [] request.method = "prompts/get" ->
         handlePromptsGet(apiKey, request, now)
    [] OTHER ->
         CatchInternal(request,
           Return(createErrorResponse(request.id, -32601, S("Method not found"))))

\* faulty variant: the await goes on until every promise has settled
handleRequestResumeAllSettled(request, promises) ==
  LET rejected == {i \in DOMAIN promises : promises[i].state = "rejected"}
      first == CHOOSE i \in rejected : \A j \in rejected : i <= j
  IN  IF \E i \in DOMAIN promises : promises[i].state = "pending"
      THEN Await(promises)
      ELSE IF rejected # {}
      THEN IF request.method = "tools/call"
           THEN handleToolsCallResume(request, promises)
           ELSE Throw(promises[first].reason)
      ELSE IF request.method = "tools/call"
           THEN handleToolsCallResume(request, promises)
           ELSE handlePromptsGetResume(request, promises)

\* the awaiting handler when its promises have settled far enough:
\* every promise fulfilled resumes it, a rejected one makes the await throw
\* (Promise.all rejects with the first rejection)
handleRequestResume(request, promises) ==
  LET rejected == {i \in DOMAIN promises : promises[i].state = "rejected"}
      first == CHOOSE i \in rejected : \A j \in rejected : i <= j
  IN  IF rejected # {}
      THEN IF request.method = "tools/call"
           THEN handleToolsCallResume(request, promises)
           ELSE Throw(promises[first].reason)
      ELSE IF \A i \in DOMAIN promises : promises[i].state = "fulfilled"
      THEN IF request.method = "tools/call"
           THEN handleToolsCallResume(request, promises)
           ELSE handlePromptsGetResume(request, promises)
      ELSE Await(promises)

\* ------------------------------------------------ one service and its call
\* the service object (its key) together with the call it is handling: the
\* request, the promises of the call's fetches, and how the promise of
\* handleRequest has settled (response: fulfilled, thrown: rejected)
Construct(envKey) ==
  [apiKey |-> WeatherServiceApiKey(envKey), pc |-> "idle", request |-> None,
   promises |-> <<>>, response |-> None, thrown |-> None]

\* the call takes the completion its handler reached
Settle(service, request, completion) ==
  [service EXCEPT
     !.pc = IF completion.kind = "await" THEN "awaiting" ELSE "done",
     !.request = Some(request),
     !.promises = completion.promises,
     !.response = completion.response,
     !.thrown = IF completion.kind = "throw" THEN Some(completion.reason)
                ELSE None]

\* a request arrives: handleRequest runs to its first await, and past it
\* when the promises it awaits are settled already
receive(service, request, now) ==
  LET started == handleRequest(service.apiKey, request, now)
  IN  IF started.kind = "await"
      THEN LET resumed == handleRequestResume(request, started.promises)
           IN  Settle(service, request,
                      [resumed EXCEPT !.promises = started.promises])
      ELSE Settle(service, request, started)

\* faulty variant: a failed query cancels the other queries of the call
completeAbortSiblings(service, i, outcome, now) ==
  LET promises == [j \in DOMAIN service.promises |->
                     IF j = i
                     THEN getWeatherByCityResume(service.promises[j], outcome, now)
                     ELSE IF outcome # "ok" /\ service.promises[j].state = "pending"
                     THEN [service.promises[j] EXCEPT !.state = "rejected",
                                                      !.reason = S("canceled")]
                     ELSE service.promises[j]]
      request == Get(service.request)
  IN  IF service.pc = "awaiting"
      THEN LET resumed == handleRequestResume(request, promises)
           IN  Settle(service, request, [resumed EXCEPT !.promises = promises])
      ELSE [service EXCEPT !.promises = promises]

\* a query of the call comes back; a handler that is still awaiting resumes
\* when that settles its await
complete(service, i, outcome, now) ==
  LET promises == [service.promises EXCEPT
                     ![i] = getWeatherByCityResume(@, outcome, now)]
      request == Get(service.request)
  IN  IF service.pc = "awaiting"
      THEN LET resumed == handleRequestResume(request, promises)
           IN  Settle(service, request, [resumed EXCEPT !.promises = promises])
      ELSE [service EXCEPT !.promises = promises]

\* the call ended in an error envelope or in a rejection
Failed(service) ==
  \/ service.thrown # None
  \/ service.response # None /\ Get(service.response).error # None

\* faulty variant: after a failed call the service falls back to the mock data
respondFallback(service) ==
  [service EXCEPT !.pc = "idle", !.request = None, !.promises = <<>>,
                  !.response = None, !.thrown = None,
                  !.apiKey = IF Failed(service) THEN "demo-key" ELSE @]

\* the controller has sent the outcome of the call: the locals of the call
\* are gone, the service object stays
respond(service) ==
  [service EXCEPT !.pc = "idle", !.request = None, !.promises = <<>>,
                  !.response = None, !.thrown = None]

PendingFetches(service) ==
  {i \in DOMAIN service.promises : service.promises[i].state = "pending"}

\* the arguments object of a request: every member is optional
Arguments(city, units, cities, travel_date, city1, city2) ==
  [city |-> city, units |-> units, cities |-> cities,
   travel_date |-> travel_date, city1 |-> city1, city2 |-> city2]
NoArguments == Arguments(None, None, None, None, None, None)

\* ---------------------------------------------------------- the stdio server
\* The stdio server has its own WeatherService class: statement for statement
\* the one above, with a plain Error where that one throws a
\* BadRequestException (the messages are the same).
StdioGetWeatherByCity(apiKey, city, units, now) ==
  getWeatherByCity(apiKey, city, units, now)

StdioFormatWeatherForDisplay(weather) == formatWeatherForDisplay(weather)

\* `${name}` in a message: a missing name reads 'undefined'
NameText(name) == IF name = None THEN S("undefined") ELSE S(Get(name))

\* what the CallTool handler returns; isError is an optional member
ToolResult(text, isError) ==
  [content |-> << [type |-> "text", text |-> text] >>, isError |-> isError]

\* faulty variant: the error of reading args.city is not caught
StdioCallToolArgsUnguarded(apiKey, request, now) ==
  IF request.params = None THEN Throw(TypeErrorDestructure)
  ELSE
    LET name == Get(request.params).name
        args == Get(request.params).arguments
    IN  IF name = Some("get-weather")
        THEN IF args = None
             THEN Throw(TypeErrorReading("city"))
             ELSE Await(<< StdioGetWeatherByCity(apiKey, Get(args).city,
                             OrDefault(Get(args).units, S("metric")), now) >>)
        ELSE Throw(S("Unknown tool: ") \o NameText(name))

\* the CallTool handler up to its await
StdioCallTool(apiKey, request, now) ==
  IF request.params = None THEN Throw(TypeErrorDestructure)
  ELSE
    LET name == Get(request.params).name
        args == Get(request.params).arguments
    IN  IF name = Some("get-weather")
        THEN IF args = None
             THEN \* args.city throws inside the try block
                  Return(ToolResult(S("Error getting weather: ")
                                      \o TypeErrorReading("city"), Some(TRUE)))
             ELSE Await(<< StdioGetWeatherByCity(apiKey, Get(args).city,
                             OrDefault(Get(args).units, S("metric")), now) >>)
        ELSE Throw(S("Unknown tool: ") \o NameText(name))

\* the CallTool handler from its await on
StdioCallToolResume(request, promises) ==
  IF promises[1].state = "fulfilled"
  THEN Return(ToolResult(
         StdioFormatWeatherForDisplay(Get(promises[1].value)), None))
  ELSE Return(ToolResult(S("Error getting weather: ") \o promises[1].reason,
                         Some(TRUE)))

\* the three generators of the stdio server: they return {description,
\* messages}, not an envelope
StdioGenerateWeatherReportPrompt(apiKey, args, now) ==
  LET city == OrDefault(args.city, London)
      units == OrDefault(args.units, S("metric"))
  IN  Await(<< StdioGetWeatherByCity(apiKey, Some(city), units, now) >>)

StdioGenerateWeatherReportPromptResume(args, promises) ==
  LET city == OrDefault(args.city, London)
      weatherText == StdioFormatWeatherForDisplay(Get(promises[1].value))
  IN  Return(PromptResult(
        S("Comprehensive weather report for ") \o city,
        Flatten(<< S("Please analyze this weather data and provide a comprehensive weather report with insights and recommendations:\n\n"),
                   weatherText,
                   S("\n\nInclude:\n- Current conditions summary\n- Comfort level analysis\n- Activity recommendations\n- What to wear suggestions\n- Any weather alerts or notable conditions") >>)))

StdioTravelCities(args) ==
  LET parts == split(OrDefault(args.cities, LondonParis))
  IN  [i \in 1..Len(parts) |-> trim(parts[i])]

StdioGenerateTravelWeatherAdvicePrompt(apiKey, args, now) ==
  LET cities == StdioTravelCities(args)
  IN  Await([i \in 1..Len(cities) |->
               StdioGetWeatherByCity(apiKey, Some(cities[i]), S("metric"), now)])

StdioGenerateTravelWeatherAdvicePromptResume(args, promises) ==
  LET cities == StdioTravelCities(args)
      travelDate == OrDefault(args.travel_date, S("today"))
      weatherTexts ==
        join([i \in 1..Len(promises) |->
                StdioFormatWeatherForDisplay(Get(promises[i].value))], S("\n\n"))
  IN  Return(PromptResult(
        S("Travel weather advice for ") \o join(cities, S(", ")),
        Flatten(<< S("I'm planning to travel to these cities "), travelDate,
                   S(". Please analyze the weather conditions and provide travel advice:\n\n"),
                   weatherTexts,
                   S("\n\nPlease provide:\n- Best city for outdoor activities\n- Packing recommendations\n- Transportation considerations\n- Best times to visit each location\n- Any weather-related travel warnings") >>)))

StdioGenerateWeatherComparisonPrompt(apiKey, args, now) ==
  LET city1 == OrDefault(args.city1, London)
      city2 == OrDefault(args.city2, Paris)
  IN  Await(<< StdioGetWeatherByCity(apiKey, Some(city1), S("metric"), now),
               StdioGetWeatherByCity(apiKey, Some(city2), S("metric"), now) >>)

StdioGenerateWeatherComparisonPromptResume(args, promises) ==
  LET city1 == OrDefault(args.city1, London)
      city2 == OrDefault(args.city2, Paris)
      weather1Text == StdioFormatWeatherForDisplay(Get(promises[1].value))
      weather2Text == StdioFormatWeatherForDisplay(Get(promises[2].value))
  IN  Return(PromptResult(
        Flatten(<< S("Weather comparison between "), city1, S(" and "), city2 >>),
        Flatten(<< S("Please compare the weather conditions between these two cities and help me decide which has better conditions:\n\n"),
                   S("**"), city1, S(":**\n"), weather1Text,
                   S("\n\n"), S("**"), city2, S(":**\n"), weather2Text,
                   S("\n\nProvide a detailed comparison including:\n- Temperature and comfort differences\n- Precipitation and visibility\n- Wind conditions\n- Overall weather quality\n- Recommendations for activities in each city") >>)))

\* args || {}
ArgsOrEmpty(arguments) == IF arguments = None THEN NoArguments ELSE Get(arguments)

\* the GetPrompt handler up to the first await of the generator it calls
StdioGetPrompt(apiKey, request, now) ==
  IF request.params = None THEN Throw(TypeErrorDestructure)
  ELSE
    LET name == Get(request.params).name
        args == ArgsOrEmpty(Get(request.params).arguments)
    IN  CASE name = Some("weather-report") ->
               StdioGenerateWeatherReportPrompt(apiKey, args, now)
          [] name = Some("travel-weather-advice") ->
               StdioGenerateTravelWeatherAdvicePrompt(apiKey, args, now)
          [] name = Some("weather-comparison") ->
               StdioGenerateWeatherComparisonPrompt(apiKey, args, now)
          [] OTHER -> Throw(S("Unknown prompt: ") \o NameText(name))

\* the generator of a GetPrompt request from its await on
StdioGetPromptResume(request, promises) ==
  LET name == Get(request.params).name
      args == ArgsOrEmpty(Get(request.params).arguments)
  IN  CASE name = Some("weather-report") ->
             StdioGenerateWeatherReportPromptResume(args, promises)
        [] name = Some("travel-weather-advice") ->
             StdioGenerateTravelWeatherAdvicePromptResume(args, promises)
        [] OTHER ->
             StdioGenerateWeatherComparisonPromptResume(args, promises)

\* the methods whose handlers of the stdio server are modelled
StdioMethods == {"tools/call", "prompts/get"}

\* the stdio server runs the handler registered for the method
StdioHandler(apiKey, request, now) ==
  IF request.method = "tools/call"
  THEN StdioCallTool(apiKey, request, now)
  ELSE StdioGetPrompt(apiKey, request, now)

\* the awaiting stdio handler when its promises have settled far enough
StdioHandlerResume(request, promises) ==
  LET rejected == {i \in DOMAIN promises : promises[i].state = "rejected"}
      first == CHOOSE i \in rejected : \A j \in rejected : i <= j
  IN  IF rejected # {}
      THEN IF request.method = "tools/call"
           THEN StdioCallToolResume(request, promises)
           ELSE Throw(promises[first].reason)
      ELSE IF \A i \in DOMAIN promises : promises[i].state = "fulfilled"
      THEN IF request.method = "tools/call"
           THEN StdioCallToolResume(request, promises)
           ELSE StdioGetPromptResume(request, promises)
      ELSE Await(promises)

\* the stdio server and the request it is handling; response holds the
\* object its handler returned
StdioConstruct(envKey) == Construct(envKey)

StdioReceive(server, request, now) ==
  LET started == StdioHandler(server.apiKey, request, now)
  IN  IF started.kind = "await"
      THEN LET resumed == StdioHandlerResume(request, started.promises)
           IN  Settle(server, request,
                      [resumed EXCEPT !.promises = started.promises])
      ELSE Settle(server, request, started)

StdioComplete(server, i, outcome, now) ==
  LET promises == [server.promises EXCEPT
                     ![i] = getWeatherByCityResume(@, outcome, now)]
      request == Get(server.request)
  IN  IF server.pc = "awaiting"
      THEN LET resumed == StdioHandlerResume(request, promises)
           IN  Settle(server, request, [resumed EXCEPT !.promises = promises])
      ELSE [server EXCEPT !.promises = promises]

\* -------------------------------------------------------------------- inputs
Times == {0}               \* what new Date() reads (seconds of the epoch)
Ids == {None, Some(7)}

CityChars == {"a", "B", " "}
CityStrings == UNION {[1..n -> CityChars] : n \in 0..MaxCityLen}
Optional(values) == {None} \cup {Some(v) : v \in values}

Units == {S("metric"), S("imperial")}

\* the entries a cities argument is made of, joined with commas
CityEntries == {<<>>, <<"a">>, <<" ", "B">>}
CitiesStrings ==
  {join(entries, S(",")) :
     entries \in UNION {[1..n -> CityEntries] : n \in 1..MaxCities}}

Params(name, arguments) == [name |-> name, arguments |-> arguments]

OtherMethods == {"bogus", "Tools/List"}
PlainParams == {None, Some(Params(None, None))}
ToolParams ==
  {None}
  \cup {Some(Params(Some("get-weather"), None))}
  \cup {Some(Params(Some("get-weather"),
                    Some(Arguments(city, units, None, None, None, None)))) :
          city \in Optional(CityStrings), units \in Optional(Units)}
  \cup {Some(Params(name, arguments)) :
          name \in {None, Some("unknown-tool")},
          arguments \in {None, Some(NoArguments),
            Some(Arguments(Some(<<"a">>), None, None, None, None, None))}}
\* travel-weather-advice with every cities argument
TravelParams ==
  {Some(Params(Some("travel-weather-advice"),
               Some(Arguments(None, None, cities, None, None, None)))) :
     cities \in Optional(CitiesStrings)}

PromptParams ==
  {None}
  \cup {Some(Params(Some(name), None)) :
          name \in {"weather-report", "travel-weather-advice",
                     "weather-comparison"}}
  \cup {Some(Params(Some("weather-report"),
                    Some(Arguments(city, units, None, None, None, None)))) :
          city \in Optional(CityStrings), units \in Optional(Units)}
  \cup {Some(Params(Some("travel-weather-advice"),
                    Some(Arguments(None, None, cities, date, None, None)))) :
          cities \in {None, Some(<<"a">>)},
          date \in {Some(<<>>), Some(S("tomorrow"))}}
  \cup {Some(Params(Some("weather-comparison"),
                    Some(Arguments(None, units, None, None, city1, city2)))) :
          units \in {None, Some(S("imperial"))},
          city1 \in Optional(CityStrings),
          city2 \in Optional({<<>>, <<"B">>})}
  \cup {Some(Params(name, arguments)) :
          name \in {None, Some("unknown-prompt")},
          arguments \in {None, Some(NoArguments),
            Some(Arguments(Some(<<"a">>), None, None, None, None, None))}}

Requests ==
  {MCPRequest(id, method, params) :
     id \in Ids,
     method \in {"initialize", "tools/list", "prompts/list"} \cup OtherMethods,
     params \in PlainParams}
  \cup {MCPRequest(id, "tools/call", params) : id \in Ids, params \in ToolParams}
  \cup {MCPRequest(id, "prompts/get", params) :
          id \in Ids, params \in PromptParams}
  \cup {MCPRequest(Some(7), "prompts/get", params) : params \in TravelParams}

\* --------------------------------------------------------------------- state
VARIABLES
  env,      \* OPENWEATHER_API_KEY of the process
  router,   \* the service of the HTTP endpoint and the call it is handling
  fresh,    \* a service constructed anew for the same call: it gets the
            \* request of router as its very first one, and the same outcomes
  stdio,    \* the stdio server, handed the same tools/call and prompts/get
            \* requests as router, with the same weather outcomes
  orphans,  \* queries of earlier calls that are still in flight
  failures  \* history: some earlier call ended in an error envelope or in a
            \* rejection of handleRequest

vars == <<env, router, fresh, stdio, orphans, failures>>

Init ==
  /\ env \in EnvKeys
  /\ router = Construct(env)
  /\ fresh = Construct(env)
  /\ stdio = StdioConstruct(env)
  /\ orphans = 0
  /\ failures = FALSE

\* POST /mcp: the controller calls handleRequest(request) and awaits it.
\* Requests are taken one at a time, the next one when the queries of the
\* earlier ones have come back.
Receive(request, now) ==
  /\ router.pc = "idle"
  /\ orphans = 0
  /\ router' = receive(router, request, now)
  /\ fresh' = receive(Construct(env), request, now)
  /\ stdio' = IF request.method \in StdioMethods
              THEN StdioReceive(stdio, request, now) ELSE stdio
  /\ UNCHANGED <<env, orphans, failures>>

\* the provider answers query i of the current call (or the query fails);
\* every server that has its query i in flight gets this outcome
FetchComplete(i, outcome, now) ==
  /\ i \in PendingFetches(router) \cup PendingFetches(stdio)
  /\ router' = IF i \in PendingFetches(router)
               THEN complete(router, i, outcome, now) ELSE router
  /\ fresh' = IF i \in PendingFetches(fresh)
              THEN complete(fresh, i, outcome, now) ELSE fresh
  /\ stdio' = IF i \in PendingFetches(stdio)
              THEN StdioComplete(stdio, i, outcome, now) ELSE stdio
  /\ UNCHANGED <<env, orphans, failures>>

\* handleRequest has settled and the controller sends the envelope (or the
\* framework reports the rejection); the queries the call left in flight stay
\* in flight.  The stdio server has settled as well and sends its answer; the
\* queries it has in flight are the ones router has in flight.
Respond ==
  /\ router.pc = "done"
  /\ stdio.pc # "awaiting"
  /\ PendingFetches(stdio) \subseteq PendingFetches(router)
  /\ router' = respond(router)
  /\ fresh' = Construct(env)
  /\ stdio' = respond(stdio)
  /\ orphans' = Cardinality(PendingFetches(router))
  /\ failures' = (failures \/ Failed(router))
  /\ UNCHANGED env

\* a query of an earlier call comes back: nobody is waiting for it
OrphanComplete ==
  /\ orphans > 0
  /\ orphans' = orphans - 1
  /\ UNCHANGED <<env, router, fresh, stdio, failures>>

Next ==
  \/ \E request \in Requests, now \in Times : Receive(request, now)
  \/ \E i \in PendingFetches(router) \cup PendingFetches(stdio),
        outcome \in AxiosOutcomes, now \in Times :
       FetchComplete(i, outcome, now)
  \/ Respond
  \/ OrphanComplete

Spec == Init /\ [][Next]_vars

\* Every query is sent with timeout: 10000: one that has not come back by
\* then ends as a failure.  So no query stays in flight for ever, which is what
\* weak fairness of the timing out says (it does not make any query time out:
\* a query that comes back in time is not in flight any more).
FetchTimeout ==
  \E i \in PendingFetches(router) \cup PendingFetches(stdio), now \in Times :
    FetchComplete(i, "other", now)

FairSpec == Spec /\ WF_vars(FetchTimeout) /\ WF_vars(OrphanComplete)

\* ==================================================================== claims
\* the request of the current call and its parts
Request == Get(router.request)
HasParams == router.request # None /\ Request.params # None
Name == Get(Request.params).name
Args == Get(Request.params).arguments
Done == router.pc = "done"
RecognizedMethods ==
  {"initialize", "tools/list", "tools/call", "prompts/list", "prompts/get"}

\* a token sequence contains the token
Embeds(text, token) == \E k \in DOMAIN text : text[k] = token

\* an error envelope with this code and message
IsError(response, code, message) ==
  /\ response.result = None
  /\ response.error # None
  /\ Get(response.error).code = code
  /\ Get(response.error).message = message

\* C1: handleRequest is total: whenever it has settled, it has settled with a
\* response envelope, never with a rejection (every internal failure has
\* become an error object).
C1_HandleRequestTotal ==
  Done => router.thrown = None /\ router.response # None

\* C2: for the five recognized methods the returned envelope carries the id
\* of the request, and none exactly when the request has none.
C2_IdMirrored ==
  (Done /\ router.response # None /\ Request.method \in RecognizedMethods)
    => Get(router.response).id = Request.id

\* C3: every envelope handleRequest returns has exactly one of result and
\* error.
C3_ResultXorError ==
  router.response # None
    => (Get(router.response).result = None) # (Get(router.response).error = None)

\* C3 witness: an error envelope and (in another call) a result envelope are
\* returned; here the error envelope of a failed weather tool call.
C3_Witness ==
  /\ Done /\ router.response # None
  /\ Request.method = "tools/call"
  /\ Get(router.response).error # None
  /\ \E i \in DOMAIN router.promises : router.promises[i].outbound

\* a get-weather tool call whose city argument is a string that is empty or
\* all whitespace
BlankCityToolCall ==
  /\ HasParams /\ Request.method = "tools/call"
  /\ Name = Some("get-weather")
  /\ Args # None /\ Get(Args).city # None
  /\ \A k \in DOMAIN Get(Get(Args).city) : Get(Get(Args).city)[k] = " "

\* C4: a get-weather tool call with a blank city ends in the error envelope
\* -32603 whose message embeds 'City name is required', with no query sent
\* and no weather record produced, whether or not a key is configured.
C4_BlankCityRejected ==
  BlankCityToolCall =>
    /\ Done /\ router.thrown = None /\ router.response # None
    /\ Get(router.response).result = None
    /\ Get(router.response).error # None
    /\ Get(Get(router.response).error).code = -32603
    /\ Embeds(Get(Get(router.response).error).message, "City name is required")
    /\ \A i \in DOMAIN router.promises :
         ~router.promises[i].outbound /\ router.promises[i].value = None

\* C4 witness: a whitespace-only city with no key configured
C4_Witness ==
  /\ BlankCityToolCall /\ Done
  /\ env = None
  /\ Get(Get(Args).city) # <<>>

\* a travel-weather-advice request whose cities argument is present
TravelCall ==
  /\ HasParams /\ Request.method = "prompts/get"
  /\ Name = Some("travel-weather-advice")
  /\ Args # None /\ Get(Args).cities # None
CitiesArgument == Get(Get(Args).cities)

\* the number of formatted city blocks in a text
Blocks(text) == Cardinality({k \in DOMAIN text : text[k] = "Weather in "})

\* one fetch per entry of the split argument, trimmed, in order, metric, all
\* of them started by the time the handler awaits; a failed fetch fails the
\* call, and an envelope is returned only with a block for every entry
OneFetchPerEntry ==
  LET entries == split(CitiesArgument)
  IN  /\ Len(router.promises) = Len(entries)
      /\ \A i \in DOMAIN entries :
           /\ router.promises[i].city = Some(trim(entries[i]))
           /\ router.promises[i].units = S("metric")
      /\ (\E i \in DOMAIN router.promises : router.promises[i].state = "rejected")
           => Done /\ router.thrown # None /\ router.response = None
      /\ router.response # None
           => /\ \A i \in DOMAIN router.promises :
                   router.promises[i].state = "fulfilled"
              /\ Get(router.response).result # None
              /\ Blocks(Get(Get(router.response).result).messages[1].content.text)
                   = Len(entries)

\* C5 as stated: every travel-weather-advice request with a cities argument
\* issues one fetch per comma-separated entry of that argument, and fails as a
\* whole when one of them fails.
C5_AsStated == TravelCall => OneFetchPerEntry

\* C5 amended: the same for a cities argument that is not the empty string
\* (an empty one is replaced by 'London,Paris').
C5_OneFetchPerEntry ==
  (TravelCall /\ CitiesArgument # <<>>) => OneFetchPerEntry

\* C5 witness: three entries, three fetches, one has failed and one has
\* succeeded: the call has failed without an envelope
C5_Witness ==
  /\ TravelCall /\ Done
  /\ Len(split(CitiesArgument)) = 3 /\ Len(router.promises) = 3
  /\ \E i, j \in DOMAIN router.promises :
       /\ router.promises[i].state = "rejected" /\ router.promises[i].outbound
       /\ router.promises[j].state = "fulfilled"
  /\ router.thrown # None

\* C6: the outcome of a call (envelope or rejection) and the state the router
\* reads are the same as for a service constructed anew that gets this request
\* as its first one, with the same weather outcomes.
C6_RequestScoped ==
  /\ router.apiKey = fresh.apiKey
  /\ router.pc = fresh.pc
  /\ router.promises = fresh.promises
  /\ router.response = fresh.response
  /\ router.thrown = fresh.thrown

\* C6 witness: after an earlier call has failed, a later call that queries
\* the provider is answered with a result
C6_Witness ==
  /\ failures /\ Done
  /\ router.response # None /\ Get(router.response).result # None
  /\ \E i \in DOMAIN router.promises : router.promises[i].outbound

\* C7: a tools/call whose name is not get-weather is answered with the error
\* -32602 'Unknown tool' and fetches nothing.
C7_UnknownTool ==
  (HasParams /\ Request.method = "tools/call" /\ Name # Some("get-weather"))
    => /\ Done /\ router.thrown = None /\ router.response # None
       /\ IsError(Get(router.response), -32602, S("Unknown tool"))
       /\ router.promises = <<>>

\* C7 witness: an unknown tool called with a city argument
C7_Witness ==
  /\ HasParams /\ Request.method = "tools/call" /\ Done
  /\ Name = Some("unknown-tool")
  /\ Args # None /\ Get(Args).city # None

\* C8: a prompts/get whose name is none of the three prompts is answered with
\* the error -32602 'Unknown prompt' under the id of the request, and fetches
\* nothing.
C8_UnknownPrompt ==
  (/\ HasParams /\ Request.method = "prompts/get"
   /\ Name \notin {Some("weather-report"), Some("travel-weather-advice"),
                   Some("weather-comparison")})
    => /\ Done /\ router.thrown = None /\ router.response # None
       /\ IsError(Get(router.response), -32602, S("Unknown prompt"))
       /\ Get(router.response).id = Request.id
       /\ router.promises = <<>>

\* C8 witness: an unknown prompt requested under the id 7
C8_Witness ==
  /\ HasParams /\ Request.method = "prompts/get" /\ Done
  /\ Name = Some("unknown-prompt")
  /\ Request.id = Some(7)

\* C9: a request with any other method name is answered with the error
\* -32601 'Method not found' under the id of the request; no handler runs
\* and nothing is fetched.
C9_MethodNotFound ==
  (router.request # None /\ Request.method \notin RecognizedMethods)
    => /\ Done /\ router.thrown = None /\ router.response # None
       /\ IsError(Get(router.response), -32601, S("Method not found"))
       /\ Get(router.response).id = Request.id
       /\ router.promises = <<>>

\* C9 witness: a method name that differs from a recognized one in case only
C9_Witness ==
  /\ router.request # None /\ Done
  /\ Request.method = "Tools/List"

\* a get-weather tool call with a city that is not blank, no key configured
MockToolCall ==
  /\ env = None
  /\ HasParams /\ Request.method = "tools/call"
  /\ Name = Some("get-weather")
  /\ Args # None /\ Get(Args).city # None
  /\ trim(Get(Get(Args).city)) # <<>>
  /\ Get(Args).units \in {None, Some(S("metric")), Some(S("imperial"))}

\* C10: without a key such a call succeeds with one text item that starts
\* 'Weather in <City>, XX:', the city with its first character in upper case
\* and the rest in lower case, and reads 22 degrees C for metric or absent
\* units and 72 degrees F for imperial.
C10_MockWeather ==
  MockToolCall =>
    LET city == Get(Get(Args).city)
        imperial == Get(Args).units = Some(S("imperial"))
        heading == <<"Weather in ">> \o toUpperCase(<<city[1]>>)
                     \o toLowerCase(SubSeq(city, 2, Len(city)))
                     \o <<", ", "XX", ":">>
        n == Len(heading)
    IN  /\ Done /\ router.thrown = None /\ router.response # None
        /\ Get(router.response).error = None
        /\ Get(router.response).result # None
        /\ LET content == Get(Get(router.response).result).content
           IN  /\ Len(content) = 1
               /\ content[1].type = "text"
               /\ SubSeq(content[1].text, 1, n) = heading
               /\ content[1].text[n + 1] = "\nTemperature: "
               /\ content[1].text[n + 2] = (IF imperial THEN "72" ELSE "22")
               /\ content[1].text[n + 3] = (IF imperial THEN "°F" ELSE "°C")

\* C10 witness: a mixed-case city in imperial units
C10_Witness ==
  /\ MockToolCall /\ Done
  /\ Get(Get(Args).city) = <<"a", "B">>
  /\ Get(Args).units = Some(S("imperial"))

\* a weather-comparison request with both city arguments present
ComparisonCall ==
  /\ HasParams /\ Request.method = "prompts/get"
  /\ Name = Some("weather-comparison")
  /\ Args # None /\ Get(Args).city1 # None /\ Get(Args).city2 # None

\* the text has the contiguous part
Contains(text, part) ==
  \E k \in 1..(Len(text) - Len(part) + 1) :
    SubSeq(text, k, k + Len(part) - 1) = part

\* two fetches, for city1 and for city2 in this order, both metric; an
\* envelope carries a result with one user message whose text has the section
\* of city1 with the block of the first fetch, then the section of city2 with
\* the block of the second fetch
TwoMetricFetches ==
  LET X == Get(Get(Args).city1)
      Y == Get(Get(Args).city2)
  IN  /\ Len(router.promises) = 2
      /\ router.promises[1].city = Some(X)
      /\ router.promises[2].city = Some(Y)
      /\ router.promises[1].units = S("metric")
      /\ router.promises[2].units = S("metric")
      /\ router.response # None
           => /\ Get(router.response).error = None
              /\ Get(router.response).result # None
              /\ LET messages == Get(Get(router.response).result).messages
                     block1 == formatWeatherForDisplay(Get(router.promises[1].value))
                     block2 == formatWeatherForDisplay(Get(router.promises[2].value))
                 IN  /\ Len(messages) = 1
                     /\ messages[1].role = "user"
                     /\ ~Embeds(messages[1].content.text, "°F")
                     /\ Contains(messages[1].content.text,
                          <<"**">> \o X \o <<":**\n">> \o block1
                            \o <<"\n\n", "**">> \o Y \o <<":**\n">> \o block2)

\* C11 as stated: every weather-comparison request with city1 = X and
\* city2 = Y issues exactly two fetches, for X and for Y, both metric whatever
\* units the caller supplies, and a result has the '**X:**' section with X's
\* block followed by the '**Y:**' section with Y's block.
C11_AsStated == ComparisonCall => TwoMetricFetches

\* C11 amended: the same when neither city argument is the empty string (an
\* empty one is replaced by 'London' or 'Paris').
C11_TwoMetricFetches ==
  (ComparisonCall /\ Get(Get(Args).city1) # <<>> /\ Get(Get(Args).city2) # <<>>)
    => TwoMetricFetches

\* C11 witness: the caller asks for imperial units, both queries are answered
\* and the result is returned
C11_Witness ==
  /\ ComparisonCall /\ Done /\ router.response # None
  /\ Get(Args).units = Some(S("imperial"))
  /\ Get(Get(Args).city1) = <<"a", "B">> /\ Get(Get(Args).city2) = <<"B">>
  /\ \A i \in DOMAIN router.promises : router.promises[i].outbound

\* the names of a catalog, in its order
Names(catalog) == [i \in DOMAIN catalog |-> catalog[i].name]

\* C12: whatever calls came before (failed ones too), tools/list returns the
\* catalog of the one tool get-weather and prompts/list the catalog of the
\* three prompts weather-report, travel-weather-advice, weather-comparison in
\* this order; each is the catalog a service constructed anew returns, so any
\* two calls of the same list method return identical catalogs.
C12_ListsHistoryIndependent ==
  /\ (Done /\ Request.method = "tools/list")
       => /\ router.thrown = None /\ router.response # None
          /\ Get(router.response).error = None
          /\ Get(router.response).result = Some([tools |-> getAvailableTools])
          /\ Names(Get(Get(router.response).result).tools) = <<"get-weather">>
          /\ Get(router.response).result = Get(fresh.response).result
  /\ (Done /\ Request.method = "prompts/list")
       => /\ router.thrown = None /\ router.response # None
          /\ Get(router.response).error = None
          /\ Get(router.response).result = Some([prompts |-> getAvailablePrompts])
          /\ Names(Get(Get(router.response).result).prompts)
               = <<"weather-report", "travel-weather-advice", "weather-comparison">>
          /\ Get(router.response).result = Get(fresh.response).result

\* C12 witness: prompts/list, with params, answered after an earlier call has
\* failed
C12_Witness ==
  /\ failures /\ Done
  /\ Request.method = "prompts/list" /\ Request.params # None
  /\ router.response # None

\* the stdio server is handling a tools/call for get-weather
StdioToolCall ==
  /\ stdio.request # None
  /\ Get(stdio.request).method = "tools/call"
  /\ Get(stdio.request).params # None
  /\ Get(Get(stdio.request).params).name = Some("get-weather")

\* the messages a failed fetch of the city can carry
FetchFailureMessages(city) ==
  { S("City name is required"),
    Flatten(<<S("City \""), city, S("\" not found")>>),
    S("Invalid API key"),
    S("Failed to fetch weather data") }

\* C13: the stdio tools/call handler for get-weather never raises.  When it
\* has settled it has returned one text item: 'Error getting weather: ' and
\* the message with isError true when the arguments are missing or the fetch
\* has failed (blank city, not found, invalid key, other failure), and the
\* formatted record without an isError member when the fetch has succeeded.
C13_StdioToolCallNeverRaises ==
  StdioToolCall =>
    LET args == Get(Get(stdio.request).params).arguments
    IN  /\ stdio.thrown = None
        /\ stdio.pc = "done"
             => /\ stdio.response # None
                /\ LET result == Get(stdio.response)
                       text == result.content[1].text
                   IN  /\ Len(result.content) = 1
                       /\ result.content[1].type = "text"
                       /\ args = None
                            => /\ result.isError = Some(TRUE)
                               /\ text = S("Error getting weather: ")
                                           \o TypeErrorReading("city")
                       /\ (args # None /\ stdio.promises[1].state = "rejected")
                            => /\ result.isError = Some(TRUE)
                               /\ text[1] = "Error getting weather: "
                               /\ SubSeq(text, 2, Len(text))
                                    \in FetchFailureMessages(
                                          IF Get(args).city = None THEN <<>>
                                          ELSE Get(Get(args).city))
                       /\ (args # None /\ stdio.promises[1].state = "fulfilled")
                            => /\ result.isError = None
                               /\ text[1] = "Weather in "
        /\ stdio.pc = "awaiting" => PendingFetches(stdio) = {1}

\* C13 witness: get-weather called without arguments is answered with an
\* isError result
C13_Witness ==
  /\ StdioToolCall /\ stdio.pc = "done"
  /\ Get(Get(stdio.request).params).arguments = None
  /\ stdio.response # None /\ Get(stdio.response).isError = Some(TRUE)

\* a get-weather tool call, key configured, whose query is in flight
ToolQueryInFlight ==
  /\ env # None
  /\ HasParams /\ Request.method = "tools/call"
  /\ Name = Some("get-weather")
  /\ router.pc = "awaiting" /\ PendingFetches(router) = {1}

\* the message of the failure kind for the city
FailureMessage(outcome, city) ==
  CASE outcome = "404" -> Flatten(<<S("City \""), city, S("\" not found")>>)
    [] outcome = "401" -> S("Invalid API key")
    [] outcome = "other" -> S("Failed to fetch weather data")

\* C14: with a key configured, a get-weather query that ends in a 404, in a
\* 401 or in any other failure gives three pairwise different messages, and
\* the tool call answers each with the error -32603 whose message is
\* 'Weather service error: ' followed by that message.
C14_FailuresDistinct ==
  /\ ToolQueryInFlight =>
       LET city == Get(Get(Args).city)
           answer(outcome) == complete(router, 1, outcome, 0)
           failure == AxiosOutcomes \ {"ok"}
       IN  /\ \A o \in failure :
                /\ answer(o).pc = "done" /\ answer(o).thrown = None
                /\ answer(o).promises[1].reason = FailureMessage(o, city)
                /\ IsError(Get(answer(o).response), -32603,
                           S("Weather service error: ") \o FailureMessage(o, city))
           /\ \A o1, o2 \in failure :
                o1 # o2 => /\ answer(o1).promises[1].reason
                                # answer(o2).promises[1].reason
                           /\ Get(Get(answer(o1).response).error).message
                                # Get(Get(answer(o2).response).error).message
  /\ (/\ env # None /\ Done /\ HasParams /\ Request.method = "tools/call"
      /\ Name = Some("get-weather") /\ Len(router.promises) = 1
      /\ router.promises[1].outbound /\ router.promises[1].state = "rejected")
       => \E o \in AxiosOutcomes \ {"ok"} :
            IsError(Get(router.response), -32603,
                    S("Weather service error: ")
                      \o FailureMessage(o, Get(router.promises[1].city)))

\* C14 witness: the provider has answered 401 and the tool call has returned
\* 'Weather service error: Invalid API key'
C14_Witness ==
  /\ env # None /\ Done /\ HasParams /\ Request.method = "tools/call"
  /\ Name = Some("get-weather")
  /\ router.response # None
  /\ IsError(Get(router.response), -32603,
             <<"Weather service error: ", "Invalid API key">>)

\* a prompts/get request for weather-report
ReportCall ==
  /\ HasParams /\ Request.method = "prompts/get"
  /\ Name = Some("weather-report")

\* one fetch, for the city argument (London when it is absent) with the units
\* argument (metric when it is absent); an envelope carries a result with a
\* description and one user message whose text embeds the formatted record
\* of that fetch
OneReportFetch ==
  LET city == IF Args = None THEN None ELSE Get(Args).city
      units == IF Args = None THEN None ELSE Get(Args).units
  IN  /\ Len(router.promises) = 1
      /\ router.promises[1].city = (IF city = None THEN Some(London) ELSE city)
      /\ router.promises[1].units
           = (IF units = None THEN S("metric") ELSE Get(units))
      /\ router.response # None
           => /\ Get(router.response).error = None
              /\ Get(router.response).result # None
              /\ LET result == Get(Get(router.response).result)
                 IN  /\ "description" \in DOMAIN result
                     /\ Len(result.messages) = 1
                     /\ result.messages[1].role = "user"
                     /\ router.promises[1].state = "fulfilled"
                     /\ Contains(result.messages[1].content.text,
                          formatWeatherForDisplay(Get(router.promises[1].value)))
                     /\ Blocks(result.messages[1].content.text) = 1

MultiCityCall ==
  /\ HasParams /\ Request.method = "prompts/get"
  /\ Name \in {Some("travel-weather-advice"), Some("weather-comparison")}
  /\ router.promises # <<>>

Rejected(service) ==
  {i \in DOMAIN service.promises : service.promises[i].state = "rejected"}

\* C16 as stated: the outcome of a multi-city request, success or failure, is
\* there only when every fetch the request started has finished.
C16_AsStated ==
  (MultiCityCall /\ Done) => PendingFetches(router) = {}

\* C16 amended: a result is there only when every fetch has finished, and
\* finished well; the failure is there as soon as one fetch has failed,
\* whether or not the others have finished; until then the request waits.
C16_JoinOnSuccessOnly ==
  MultiCityCall =>
    /\ router.response # None
         => /\ PendingFetches(router) = {}
            /\ Rejected(router) = {}
            /\ Get(router.response).result # None
    /\ Rejected(router) # {} => Done /\ router.thrown # None
    /\ router.thrown # None => Rejected(router) # {}
    /\ router.pc = "awaiting"
         => PendingFetches(router) # {} /\ Rejected(router) = {}

\* C16 witness: of three fetches one has failed, and the failure of the
\* request is there while another fetch is still in flight
C16_Witness ==
  /\ MultiCityCall /\ Done /\ router.thrown # None
  /\ Len(router.promises) = 3
  /\ PendingFetches(router) # {}
  /\ \E i \in Rejected(router) : router.promises[i].outbound

\* the queries of router's calls that are in flight, of the call it is
\* handling and of earlier ones
InFlight == Cardinality(PendingFetches(router)) + orphans

\* a step leaves every fetch alone or settles one: a settled fetch stays as it
\* is (no retry), one step settles at most one fetch of the call (no fetch is
\* ended along with another), fetches start only with a request, and the
\* fetches in flight when the outcome is delivered stay in flight
NoAbortNoRetry ==
  /\ (router.request # None /\ router'.request = router.request)
       => /\ Len(router'.promises) = Len(router.promises)
          /\ \A i \in DOMAIN router.promises :
               /\ router'.promises[i].city = router.promises[i].city
               /\ router'.promises[i].units = router.promises[i].units
               /\ router.promises[i].state # "pending"
                    => router'.promises[i] = router.promises[i]
          /\ Cardinality({i \in DOMAIN router.promises :
                            router'.promises[i] # router.promises[i]}) <= 1
          /\ orphans' = orphans
  /\ (router.request # None /\ router'.request = None)
       => orphans' = Cardinality(PendingFetches(router))
  /\ InFlight' > InFlight => router.request = None /\ InFlight = 0
  /\ InFlight' >= InFlight - 1

\* C17: no step of the router aborts or retries a fetch, and every fetch in
\* flight eventually comes back: also when another fetch of its request has
\* failed and when the outcome of the request has been delivered.
C17_FetchesRunToCompletion ==
  /\ [][NoAbortNoRetry]_vars
  /\ (InFlight > 0) ~> (InFlight = 0)

\* C17 witness: a multi-city request has failed and its outcome has been
\* delivered while two of its fetches are still in flight
C17_Witness ==
  /\ router.pc = "idle" /\ failures
  /\ orphans = 2

\* both servers have settled the same prompts/get request
PromptsGetSettled ==
  /\ HasParams /\ Request.method = "prompts/get"
  /\ Done /\ stdio.pc = "done"

\* C18: for prompts/get the router and the stdio handler agree: for every
\* prompt name and every params, arguments present or absent, both fail or
\* both succeed, and when both succeed the result of the router's envelope is
\* the object the stdio handler returns.
C18_PromptsGetEquivalent ==
  PromptsGetSettled =>
    /\ Failed(router) <=> (stdio.thrown # None)
    /\ (~Failed(router) /\ stdio.thrown = None)
         => Get(router.response).result = stdio.response

\* the positions of the formatted city blocks in a text, and the i-th of them
BlockStarts(text) == {k \in DOMAIN text : text[k] = "Weather in "}
BlockStart(text, i) ==
  CHOOSE k \in BlockStarts(text) :
    Cardinality({j \in BlockStarts(text) : j < k}) = i - 1

\* the block that starts at position k names the city (the provider's record
\* carries the name as it was asked, the mock record carries it capitalised)
BlockNames(text, k, city) ==
  /\ k + Len(city) <= Len(text)
  /\ toLowerCase(SubSeq(text, k + 1, k + Len(city))) = toLowerCase(city)
  /\ text[k + Len(city) + 1] = ", "

\* the cities a travel-weather-advice request lists: the entries of the
\* caller's list, trimmed; London and Paris when the caller gives no list
ListedCities ==
  IF Get(Args).cities = None \/ Get(Get(Args).cities) = <<>>
  THEN <<London, Paris>>
  ELSE LET entries == split(Get(Get(Args).cities))
       IN  [i \in DOMAIN entries |-> trim(entries[i])]

\* C19: in a successful travel-weather-advice response there is one block per
\* listed city and the i-th block is the record of the i-th city of the list,
\* and in a successful weather-comparison response the heading of city1 is
\* followed by the record of city1 and the heading of city2 by the record of
\* city2; in every state, so in whatever order the fetches have come back,
\* the record a fetch has brought is held for the city at its place.
C19_BlocksInInputOrder ==
  /\ (/\ HasParams /\ Request.method = "prompts/get"
      /\ Name = Some("travel-weather-advice") /\ Args # None)
       => /\ Len(router.promises) = Len(ListedCities)
          /\ \A i \in DOMAIN router.promises :
               /\ router.promises[i].city = Some(ListedCities[i])
               /\ router.promises[i].state = "fulfilled"
                    => BlockNames(
                         formatWeatherForDisplay(Get(router.promises[i].value)),
                         1, ListedCities[i])
          /\ router.response # None
               => LET text == Get(Get(router.response).result).messages[1].content.text
                  IN  /\ Cardinality(BlockStarts(text)) = Len(ListedCities)
                      /\ \A i \in DOMAIN ListedCities :
                           BlockNames(text, BlockStart(text, i), ListedCities[i])
  /\ (/\ HasParams /\ Request.method = "prompts/get"
      /\ Name = Some("weather-comparison") /\ Args # None
      /\ router.response # None)
       => LET text == Get(Get(router.response).result).messages[1].content.text
              city1 == OrDefault(Get(Args).city1, London)
              city2 == OrDefault(Get(Args).city2, Paris)
              head1 == <<"**">> \o city1 \o <<":**\n">>
              head2 == <<"\n\n", "**">> \o city2 \o <<":**\n">>
          IN  /\ Cardinality(BlockStarts(text)) = 2
              /\ SubSeq(text, BlockStart(text, 1) - Len(head1),
                        BlockStart(text, 1) - 1) = head1
              /\ BlockNames(text, BlockStart(text, 1), city1)
              /\ SubSeq(text, BlockStart(text, 2) - Len(head2),
                        BlockStart(text, 2) - 1) = head2
              /\ BlockNames(text, BlockStart(text, 2), city2)

\* C19 witness: a list of three entries, the outer two the same city, all
\* three queries answered by the provider, the result returned
C19_Witness ==
  /\ HasParams /\ Request.method = "prompts/get"
  /\ Name = Some("travel-weather-advice") /\ Args # None
  /\ Get(Args).cities # None
  /\ ListedCities = << <<"a">>, <<"B">>, <<"a">> >>
  /\ Done /\ router.response # None
  /\ \A i \in DOMAIN router.promises : router.promises[i].outbound

====
